---- MODULE Spec2Model ----
(***************************************************************************)
(* Model of dwhelper.py: the handler chain of AllInOneDownloader, the      *)
(* three PlatformHandler variants, the direct downloader and main_loop.    *)
(*                                                                         *)
(* Strings are sequences of symbols.  A symbol stands for a fixed chunk of *)
(* characters, chosen so that every pattern the code searches for is a     *)
(* sequence of whole symbols; len() counts symbols.  Python's None is the  *)
(* one-symbol sequence None, which no real string uses.                    *)
(***************************************************************************)
EXTENDS Integers, Sequences, FiniteSets, TLC

\* ------------------------------------------------------------------ bounds
\* Number of try_download calls one run of the program makes.
MaxCalls == 1
\* get_timestamp_ms() answers one of 1..MaxTime.
MaxTime == 1

\* ------------------------------------------------------- program constants
YtDlpMinBytes == 300000
DirectMinTenthsMB == 3
BytesPerMB == 1048576
MaxNameLen == 200
MinLinkLen == 50
LastAttempt == 3

\* ------------------------------------------------------------ string tools
None == <<"<None>">>

IsStr(x) == x # None

Min(a, b) == IF a < b THEN a ELSE b

\* str.lower(), symbol by symbol
LowerSym(c) ==
  CASE c = "TIKTOK.COM" -> "tiktok.com"
    [] c = "EXIT" -> "exit"
    [] c = "Q" -> "q"
    [] c = "WATERMARK" -> "watermark"
    [] c = "X" -> "x"
    [] OTHER -> c

Lower(s) == [i \in 1..Len(s) |-> LowerSym(s[i])]

\* sub in s
Contains(sub, s) ==
  \E i \in 0..(Len(s) - Len(sub)) :
    \A j \in 1..Len(sub) : s[i + j] = sub[j]

StartsWith(s, pre) ==
  /\ Len(pre) <= Len(s)
  /\ \A j \in 1..Len(pre) : s[j] = pre[j]

Whitespace == {" "}

RECURSIVE LStrip(_, _)
LStrip(s, drop) ==
  IF s # <<>> /\ Head(s) \in drop THEN LStrip(Tail(s), drop) ELSE s

RECURSIVE RStrip(_, _)
RStrip(s, drop) ==
  IF s # <<>> /\ s[Len(s)] \in drop
    THEN RStrip(SubSeq(s, 1, Len(s) - 1), drop)
    ELSE s

\* str.strip()
Strip(s) == RStrip(LStrip(s, Whitespace), Whitespace)

\* re.sub of a run of one or more symbols of `cls` (at least `atLeast` long)
\* by the single symbol "_"
RECURSIVE RunLen(_, _)
RunLen(s, cls) ==
  IF s # <<>> /\ Head(s) \in cls THEN 1 + RunLen(Tail(s), cls) ELSE 0

RECURSIVE SubRuns(_, _, _)
SubRuns(s, cls, atLeast) ==
  IF s = <<>> THEN <<>>
  ELSE LET n == RunLen(s, cls) IN
    IF n >= atLeast /\ n > 0
      THEN <<"_">> \o SubRuns(SubSeq(s, n + 1, Len(s)), cls, atLeast)
    ELSE IF n > 0
      THEN SubSeq(s, 1, n) \o SubRuns(SubSeq(s, n + 1, Len(s)), cls, atLeast)
    ELSE <<Head(s)>> \o SubRuns(Tail(s), cls, atLeast)

ForbiddenChars == {"<", ">", ":", "\"", "/", "\\", "|", "?", "*"}

clean_filename(dirty_name) ==
  LET n1 == [i \in 1..Len(dirty_name) |->
               IF dirty_name[i] \in ForbiddenChars THEN "_" ELSE dirty_name[i]]
      n2 == SubRuns(Strip(n1), Whitespace, 1)
      n3 == SubRuns(n2, {"_"}, 2)
  IN RStrip(SubSeq(n3, 1, Min(MaxNameLen, Len(n3))), {"_"})

\* ---------------------------------------------------------------- VideoData
VideoData(url) ==
  [ original_url |-> url,
    title        |-> <<"video">>,
    username     |-> <<"unknown">>,
    duration_sec |-> None,
    preview_url  |-> None,
    download_url |-> None,
    source_name  |-> <<"unknown">>,
    downloaded_ok |-> FALSE,
    fail_reason  |-> None ]

\* clean_filename raises TypeError on a field that is None
suggested_filename_raises(video) ==
  ~IsStr(video.username) \/ ~IsStr(video.title)

suggested_filename(video, ts) ==
  LET parts == <<clean_filename(video.username), clean_filename(video.title)>>
      clean_parts == SelectSeq(parts, LAMBDA p : p # <<>>)
  IN IF clean_parts = <<>>
       THEN <<"video", "_", ToString(ts), ".mp4">>
     ELSE IF Len(clean_parts) = 1
       THEN clean_parts[1] \o <<".mp4">>
     ELSE clean_parts[1] \o <<"_">> \o clean_parts[2] \o <<".mp4">>

\* ------------------------------------------------------------------ re.search
\* A pattern is a sequence of items; an item accepts one symbol (or, with
\* plus, a run of one or more symbols) that is in / not in its set.
Lit(c) == [set |-> {c}, neg |-> FALSE, plus |-> FALSE]
OneOf(S) == [set |-> S, neg |-> FALSE, plus |-> FALSE]
NotPlus(S) == [set |-> S, neg |-> TRUE, plus |-> TRUE]

Accepts(item, c) == (c \in item.set) # item.neg

RECURSIVE MatchHere(_, _, _)
MatchHere(pat, s, i) ==
  IF pat = <<>> THEN TRUE
  ELSE IF i > Len(s) THEN FALSE
  ELSE IF ~Accepts(Head(pat), s[i]) THEN FALSE
  ELSE \/ MatchHere(Tail(pat), s, i + 1)
       \/ Head(pat).plus /\ MatchHere(pat, s, i + 1)

\* re.search(p, s, re.IGNORECASE), the patterns being lower case
re_search_i(pat, s) == \E i \in 1..(Len(s) + 1) : MatchHere(pat, Lower(s), i)

TikTokPatterns ==
  { <<Lit("tiktok.com"), Lit("/"), Lit("@"), NotPlus({"/"}), Lit("/"),
      Lit("video"), Lit("/")>>,
    <<Lit("tiktok.com"), Lit("/"), Lit("t"), Lit("/")>>,
    <<Lit("vm."), Lit("tiktok.com"), Lit("/")>>,
    <<Lit("vt."), Lit("tiktok.com"), Lit("/")>> }

InstagramPattern ==
  <<OneOf({"instagram.com", "instagr.am"}), Lit("/"), OneOf({"p", "reel"}),
    Lit("/")>>

YtDlp_can_handle(u) == TRUE

TikTok_can_handle(u) == \E p \in TikTokPatterns : re_search_i(p, u)

Instagram_can_handle(u) == re_search_i(InstagramPattern, u)

can_handle(h, u) ==
  CASE h = "YtDlpHandler" -> YtDlp_can_handle(u)
    [] h = "TikTokHandler" -> TikTok_can_handle(u)
    [] h = "InstagramHandler" -> Instagram_can_handle(u)

\* --------------------------------------------------------------- the inputs
UrlTikTokVideo ==
  <<"https://", "www.", "tiktok.com", "/", "@", "user", "/", "video", "/", "123">>
UrlTikTokShort == <<"https://", "vm.", "TIKTOK.COM", "/", "abc">>
UrlTikTokProfile == <<"https://", "www.", "tiktok.com", "/", "@", "user">>
UrlInstagramReel ==
  <<"https://", "www.", "instagram.com", "/", "reel", "/", "abc", "/", "?", "igsh=1">>
UrlBoth ==
  <<"https://", "instagr.am", "/", "p", "/", "abc", "?", "ref=", "vt.", "tiktok.com", "/">>
UrlOther == <<"https://", "youtube.com", "/", "watch">>

Urls == { UrlTikTokVideo, UrlTikTokProfile, UrlInstagramReel, UrlBoth }

\* what the user may type at the prompt of main_loop
Typed ==
  { <<>>, <<" ">>, <<"Q">>, <<" ", "exit">>, <<"hello">>, UrlTikTokShort,
    UrlInstagramReel, <<" ">> \o UrlOther \o <<" ">> }

\* what a caller may pass to try_download
Passed == Urls \cup { <<>>, <<"hello">> }

\* -------------------------------------------------------------------- state
VARIABLES
  YT_DLP_AVAILABLE,  \* whether the import of yt_dlp succeeded
  handlers,          \* AllInOneDownloader.handlers, class names in list order
  caller,            \* "main_loop" (the program) or "api" (try_download called directly)
  pc,                \* the position of the single thread of control
  url,               \* the url argument of the running try_download
  hidx,              \* position of the for loop over self.handlers
  video_info,        \* the record extract_info returned (line 308)
  result,            \* how the last try_download ended
  folder,            \* the destination folder: "absent", "dir" or "blocked"
  files,             \* the files of the destination folder: records [path, size]
  headers,           \* TikTokHandler.extract_info: index of the User-Agent in headers
  attempt,           \* TikTokHandler.extract_info: the loop variable attempt
  sidx,              \* TikTokHandler.extract_info: position in service_urls
  vidx,              \* InstagramHandler.extract_info: position in attempts
  exit,              \* how the program ended, "" while it runs
  link,              \* main_loop: the line read last, stripped; None before the first
  printed,           \* what main_loop printed last
  calls,             \* history: operations invoked by the running try_download
  records,           \* history: every VideoData built during the running try_download
  net,               \* history: the last network event of the running try_download
  files0,            \* history: files when the running try_download started
  folder0,           \* history: folder when the running try_download started
  ncalls             \* number of try_download calls started

vars ==
  << YT_DLP_AVAILABLE, handlers, caller, pc, url, hidx, video_info, result,
     folder, files, headers, attempt, sidx, vidx, exit, link, printed, calls,
     records, net, files0, folder0, ncalls >>

DEFAULT_SAVE_FOLDER == <<"downloaded_videos">>

\* a network event: a request (of which attempt, to which service or variant,
\* with which User-Agent, answered by which response), a sleep, or the
\* transfer of the direct downloader (of which size)
NetEvent(ev, att, service, ua, resp, size) ==
  [ev |-> ev, attempt |-> att, service |-> service, ua |-> ua, resp |-> resp,
   size |-> size]

NoNet == NetEvent("none", 0, 0, 0, 0, 0)

\* os.path.join(folder, name)
path_join(dir, name) == dir \o <<"/">> \o name

Return(ok, val) == [kind |-> "return", ok |-> ok, val |-> val]
Raise(exc) == [kind |-> "raise", ok |-> FALSE, val |-> <<exc>>]
NoResult == [kind |-> "none", ok |-> FALSE, val |-> <<>>]

\* bool(x) of an Optional[str]
Truthy(x) == x # None /\ x # <<>>

\* dict.get(key, default)
dict_get(d, key, default) == IF key \in DOMAIN d THEN d[key] ELSE default

\* AllInOneDownloader.__init__
InitHandlers(available) ==
  (IF available THEN <<"YtDlpHandler">> ELSE <<>>)
    \o <<"TikTokHandler", "InstagramHandler">>

\* the attributes __init__ sets on the AllInOneDownloader instance
downloader_attrs == {"handlers"}

\* get_timestamp_ms()
Timestamps == 1..MaxTime

ExistingFile == path_join(DEFAULT_SAVE_FOLDER, <<"unknown", "_", "video", ".mp4">>)

Init ==
  /\ YT_DLP_AVAILABLE \in BOOLEAN
  /\ handlers = InitHandlers(YT_DLP_AVAILABLE)
  /\ caller \in {"main_loop", "api"}
  /\ pc = IF caller = "main_loop" THEN "prompt" ELSE "idle"
  /\ url = <<>>
  /\ hidx = 1
  /\ video_info = VideoData(<<>>)
  /\ result = NoResult
  /\ folder \in {"absent", "dir", "blocked"}
  /\ files \in IF folder = "dir"
                 THEN {{}, {[path |-> ExistingFile, size |-> 400000]}}
                 ELSE {{}}
  /\ headers = 0
  /\ attempt = 1
  /\ sidx = 1
  /\ vidx = 1
  /\ exit = ""
  /\ link = None
  /\ printed = ""
  /\ calls = <<>>
  /\ records = {}
  /\ net = NoNet
  /\ files0 = files
  /\ folder0 = folder
  /\ ncalls = 0

\* ---------------------------------------------------------------- filesystem
\* os.path.exists(p)
path_exists(fs, p) == \E f \in fs : f.path = p

\* os.path.getsize(p)
getsize(fs, p) == (CHOOSE f \in fs : f.path = p).size

\* the file p written anew with n bytes
write_file(fs, p, n) == {f \in fs : f.path # p} \cup {[path |-> p, size |-> n]}

\* os.unlink(p)
unlink(fs, p) == {f \in fs : f.path # p}

\* create_folder_if_needed: Path.mkdir(parents=True, exist_ok=True) raises
\* when the folder cannot be made (a file in its place, no permission)
mkdir_raises(dir) == dir = "blocked"

\* what a download operation leaves behind: its outcome and the filesystem
Outcome(res, dir, fs) == [res |-> res, folder |-> dir, files |-> fs]

\* ------------------------------------------------------ the external engine
\* YoutubeDL.extract_info(url, download=False): an info dict or an exception
InfoDicts ==
  << [ title |-> <<"my", " ", "clip", "?">>, uploader |-> <<"bob">>,
       duration |-> <<"12.5">>, thumbnail |-> <<"https://", "img">>,
       extractor |-> <<"youtube">> ],
     [ title |-> <<"my", " ", "clip", "?">>, uploader |-> None ],
     [ id |-> <<"1">> ] >>

\* YoutubeDL.download: an exception, nothing written, or out_path written
YtDlpDownloads ==
  { [kind |-> "raise", size |-> 0], [kind |-> "nofile", size |-> 0],
    [kind |-> "file", size |-> YtDlpMinBytes],
    [kind |-> "file", size |-> YtDlpMinBytes + 1] }

\* the streamed GET of the direct downloader: an HTTP error status, a
\* transport error after `size` bytes were written, or a complete transfer
Transfers ==
  { [kind |-> "http_error", size |-> 0],
    [kind |-> "broken", size |-> 1000],
    [kind |-> "complete", size |-> 0],
    [kind |-> "complete", size |-> 314572],
    [kind |-> "complete", size |-> 314573] }

\* ------------------------------------------------------------- YtDlpHandler
YtDlp_extract_ok(u, info_dict) ==
  [ VideoData(u) EXCEPT
      !.title = dict_get(info_dict, "title", <<"no", "_", "title">>),
      !.username = dict_get(info_dict, "uploader", <<"unknown">>),
      !.duration_sec = dict_get(info_dict, "duration", None),
      !.preview_url = dict_get(info_dict, "thumbnail", None),
      !.source_name = dict_get(info_dict, "extractor", <<"yt-dlp">>),
      !.downloaded_ok = TRUE ]

\* the failure record built without its reason
YtDlp_extract_failed_no_reason(u) == VideoData(u)

YtDlp_extract_failed(u) ==
  [ VideoData(u) EXCEPT !.fail_reason = <<"yt-dlp extract error: ", "e">> ]

\* the size test of line 176
YtDlp_file_ok(fs, out_path) ==
  path_exists(fs, out_path) /\ getsize(fs, out_path) > YtDlpMinBytes

YtDlp_perform_download(video, dir, fs, dl, ts) ==
  IF mkdir_raises(dir) THEN Outcome(Raise("OSError"), dir, fs)
  ELSE IF suggested_filename_raises(video)
    THEN Outcome(Raise("TypeError"), "dir", fs)
  ELSE
    LET out_path == path_join(DEFAULT_SAVE_FOLDER, suggested_filename(video, ts))
        fs1 == IF dl.kind = "file" THEN write_file(fs, out_path, dl.size) ELSE fs
    IN IF dl.kind = "raise"
         THEN Outcome(Return(FALSE, <<"str(e)">>), "dir", fs1)
       ELSE IF YtDlp_file_ok(fs1, out_path)
         THEN Outcome(Return(TRUE, out_path), "dir", fs1)
       ELSE Outcome(Return(FALSE, <<"file missing or too small">>), "dir", fs1)

\* PlatformHandler.perform_download, which TikTokHandler and InstagramHandler
\* inherit unchanged
Base_perform_download(video, dir, fs) ==
  Outcome(Raise("NotImplementedError"), dir, fs)

perform_download(h, video, dir, fs, dl, ts) ==
  IF h = "YtDlpHandler"
    THEN YtDlp_perform_download(video, dir, fs, dl, ts)
    ELSE Base_perform_download(video, dir, fs)

\* -------------------------------------------------------- direct downloader
\* (the Russian messages of the source are given in English)
\* size_mb < 0.3, in integers
too_small_direct(size) == size * 10 < DirectMinTenthsMB * BytesPerMB

fast_direct_download(video, dir, fs, xfer, ts) ==
  IF ~Truthy(video.download_url)
    THEN Outcome(Return(FALSE, <<"no direct link">>), dir, fs)
  ELSE IF mkdir_raises(dir) THEN Outcome(Raise("OSError"), dir, fs)
  ELSE IF suggested_filename_raises(video)
    THEN Outcome(Raise("TypeError"), "dir", fs)
  ELSE
    LET target_file ==
          path_join(DEFAULT_SAVE_FOLDER, suggested_filename(video, ts))
        failed(e) == Return(FALSE, <<"direct download failed: ", e>>)
    IN IF "session" \notin downloader_attrs
         THEN Outcome(failed("AttributeError"), "dir", fs)
       ELSE IF xfer.kind = "http_error"
         THEN Outcome(failed("HTTPError"), "dir", fs)
       ELSE IF xfer.kind = "broken"
         THEN Outcome(failed("ConnectionError"), "dir",
                      write_file(fs, target_file, xfer.size))
       ELSE IF too_small_direct(xfer.size)
         THEN Outcome(Return(FALSE, <<"file too small (", "size_mb", " MB)">>), "dir",
                      unlink(write_file(fs, target_file, xfer.size), target_file))
       ELSE Outcome(Return(TRUE, target_file), "dir",
                    write_file(fs, target_file, xfer.size))

\* ------------------------------------------------------------ TikTokHandler
TIKTOK_USER_AGENTS == <<"mobile", "desktop", "android14", "android13">>

service_urls ==
  << <<"https://", "ssstik", ".io/abc?url=dl">>,
     <<"https://", "tiktokio", ".com/api/ajaxSearch">>,
     <<"https://", "tikwm", ".com/api/">> >>

Pad(n) == [i \in 1..n |-> "x"]

\* a media link of n symbols, `mid` among them
MkLink(mid, n) ==
  <<"https://", "cdn", "/">> \o mid \o Pad(n - Len(mid) - 4) \o <<".mp4">>

WmLink == MkLink(<<"WATERMARK">>, MinLinkLen + 10)
GoodLink == MkLink(<<"hd">>, MinLinkLen + 1)
EdgeLink == MkLink(<<"hd">>, MinLinkLen)
ShortLink == MkLink(<<"hd">>, 6)

\* what a candidate service may answer: a transport error, or a status and a
\* body; `links` are the media links of the body in the order the scan meets
\* them, `json` tells whether the body starts with "{" and whether it parses
TikTokResponses ==
  << [kind |-> "error", status |-> 0, json |-> "no", links |-> <<>>],
     [kind |-> "http", status |-> 403, json |-> "no", links |-> <<>>],
     [kind |-> "http", status |-> 200, json |-> "no", links |-> <<>>],
     [kind |-> "http", status |-> 200, json |-> "invalid", links |-> <<>>],
     [kind |-> "http", status |-> 200, json |-> "no", links |-> <<WmLink, GoodLink>>],
     [kind |-> "http", status |-> 200, json |-> "valid", links |-> <<ShortLink, EdgeLink>>] >>

\* re.findall over r.text.lower() + json.dumps(r.json() or {})
video_links(resp) ==
  [i \in 1..Len(resp.links) |-> Lower(resp.links[i])]
    \o (IF resp.json = "valid" THEN resp.links ELSE <<>>)

link_acceptable(l) ==
  ~Contains(<<"watermark">>, Lower(l)) /\ Len(l) > MinLinkLen

RECURSIVE first_acceptable(_)
first_acceptable(links) ==
  IF links = <<>> THEN None
  ELSE IF link_acceptable(Head(links)) THEN Head(links)
  ELSE first_acceptable(Tail(links))

TikTok_found(u, l, ts) ==
  [ VideoData(u) EXCEPT
      !.download_url = l,
      !.title = <<"tiktok", "_", ToString(ts)>>,
      !.source_name = <<"tiktok_direct">>,
      !.downloaded_ok = TRUE ]

TikTok_failed(u) ==
  [ VideoData(u) EXCEPT !.fail_reason = <<"all tiktok methods failed">> ]

\* --------------------------------------------------------- InstagramHandler
\* url.split('?')[0]
RECURSIVE before_query(_)
before_query(s) ==
  IF s = <<>> \/ Head(s) = "?" THEN <<>> ELSE <<Head(s)>> \o before_query(Tail(s))

clean_url(u) == RStrip(before_query(u), {"/"})

ig_attempts(u) ==
  << clean_url(u) \o <<"/", "?", "__a=1", "&", "__d=dis">>,
     clean_url(u) \o <<"/", "embed">>,
     clean_url(u) \o <<"/", "?", "__a=1">> >>

VideoUrl == <<"https://", "scontent", "/", "v.mp4">>

\* the parsed bodies a variant may answer with
IgDatas ==
  << [ status |-> <<"ok">> ],
     [ graphql |-> [ user |-> <<"1">> ] ],
     [ graphql |-> [ shortcode_media |-> [ id |-> <<"1">> ] ] ],
     [ graphql |-> [ shortcode_media |-> [ video_url |-> VideoUrl ] ] ],
     [ graphql |-> [ shortcode_media |->
         [ video_url |-> VideoUrl, owner |-> [ id |-> <<"7">> ] ] ] ],
     [ graphql |-> [ shortcode_media |->
         [ video_url |-> VideoUrl, owner |-> [ username |-> <<"alice">> ],
           title |-> <<"reel">> ] ] ],
     [ graphql |-> [ shortcode_media |->
         [ video_url |-> VideoUrl, owner |-> [ username |-> <<"alice">> ],
           title |-> None ] ] ] >>

\* what a variant may answer: a transport error, a status other than 200, an
\* empty body, a body that is no JSON, or IgDatas[data]
IgResponses ==
  { [kind |-> "error", status |-> 0, text |-> "", data |-> 0],
    [kind |-> "http", status |-> 404, text |-> "", data |-> 0],
    [kind |-> "http", status |-> 200, text |-> "blank", data |-> 0],
    [kind |-> "http", status |-> 200, text |-> "html", data |-> 0] }
  \cup { [kind |-> "http", status |-> 200, text |-> "json", data |-> i] :
           i \in 1..Len(IgDatas) }

\* lines 268-270: whether the parsed body holds a media descriptor with a
\* video_url; a failed lookup raises KeyError, which the inner except passes
Instagram_has_media(data) ==
  /\ "graphql" \in DOMAIN data
  /\ "shortcode_media" \in DOMAIN data.graphql
  /\ Truthy(dict_get(data.graphql.shortcode_media, "video_url", None))
  /\ "owner" \in DOMAIN data.graphql.shortcode_media

Instagram_found(u, data, ts) ==
  LET media == data.graphql.shortcode_media IN
  [ VideoData(u) EXCEPT
      !.title = dict_get(media, "title", <<"ig", "_", ToString(ts)>>),
      !.username = dict_get(media.owner, "username", <<"unknown">>),
      !.download_url = media.video_url,
      !.source_name = <<"instagram_graphql">>,
      !.downloaded_ok = TRUE ]

Instagram_failed(u) ==
  [ VideoData(u) EXCEPT !.fail_reason = <<"instagram methods exhausted">> ]

\* ------------------------------------------------------------------ actions
Log(h, op) == Append(calls, [h |-> h, op |-> op])

NO_METHOD == <<"no suitable method could be found">>

\* the entry of try_download(u): the history of the call starts afresh
BeginTryDownload(u) ==
  /\ ncalls < MaxCalls
  /\ ncalls' = ncalls + 1
  /\ url' = u
  /\ hidx' = 1
  /\ pc' = "td_loop"
  /\ result' = NoResult
  /\ video_info' = VideoData(<<>>)
  /\ calls' = <<>>
  /\ records' = {}
  /\ net' = NoNet
  /\ files0' = files
  /\ folder0' = folder
  /\ headers' = 0
  /\ attempt' = 1
  /\ sidx' = 1
  /\ vidx' = 1
  /\ UNCHANGED <<YT_DLP_AVAILABLE, handlers, caller, folder, files, exit>>

\* main_loop, lines 366-376: read a line and leave, complain or download
main_loop_input ==
  /\ pc = "prompt"
  /\ \E typed \in Typed :
       /\ link' = Strip(typed)
       /\ IF Lower(link') \in {<<"exit">>, <<"q">>, <<"quit">>, <<>>}
            THEN /\ pc' = "exited"
                 /\ exit' = "goodbye"
                 /\ printed' = "goodbye"
                 /\ UNCHANGED <<YT_DLP_AVAILABLE, handlers, caller, url, hidx,
                                video_info, result, folder, files, headers,
                                attempt, sidx, vidx, calls, records, net,
                                files0, folder0, ncalls>>
          ELSE IF ~(StartsWith(link', <<"http://">>) \/ StartsWith(link', <<"https://">>))
            THEN /\ printed' = "not a link"
                 /\ UNCHANGED <<YT_DLP_AVAILABLE, handlers, caller, pc, url, hidx,
                                video_info, result, folder, files, headers,
                                attempt, sidx, vidx, exit, calls, records, net,
                                files0, folder0, ncalls>>
          ELSE /\ BeginTryDownload(link')
               /\ printed' = ""

\* try_download called by a program that uses the class directly
api_try_download ==
  /\ pc = "idle"
  /\ \E u \in Passed : BeginTryDownload(u)
  /\ UNCHANGED <<link, printed>>

\* can_handle looks the URL up on the network before it answers
try_download_can_handle_probes ==
  /\ pc = "td_loop"
  /\ hidx <= Len(handlers)
  /\ calls' = Log(handlers[hidx], "can_handle")
  /\ net' = NetEvent("request", 0, hidx, 0, 0, 0)
  /\ IF can_handle(handlers[hidx], url)
       THEN pc' = "extract" /\ hidx' = hidx
       ELSE pc' = "td_loop" /\ hidx' = hidx + 1
  /\ UNCHANGED <<YT_DLP_AVAILABLE, handlers, caller, url, video_info, result,
                 folder, files, headers, attempt, sidx, vidx, exit, link, printed,
                 records, files0, folder0, ncalls>>

\* lines 302-304: the next handler of the chain is asked whether it applies
try_download_can_handle ==
  /\ pc = "td_loop"
  /\ hidx <= Len(handlers)
  /\ calls' = Log(handlers[hidx], "can_handle")
  /\ IF can_handle(handlers[hidx], url)
       THEN pc' = "extract" /\ hidx' = hidx
       ELSE pc' = "td_loop" /\ hidx' = hidx + 1
  /\ UNCHANGED <<YT_DLP_AVAILABLE, handlers, caller, url, video_info, result,
                 folder, files, headers, attempt, sidx, vidx, exit, link, printed,
                 records, net, files0, folder0, ncalls>>

\* extract_info returns `video` to line 308
ExtractReturns(video) ==
  /\ video_info' = video
  /\ records' = records \cup {video}
  /\ pc' = "td_decide"

\* YtDlpHandler.extract_info, lines 139-156
YtDlp_extract_info ==
  /\ pc = "extract"
  /\ handlers[hidx] = "YtDlpHandler"
  /\ calls' = Log("YtDlpHandler", "extract_info")
  /\ \E i \in 0..Len(InfoDicts) :
       ExtractReturns(IF i = 0 THEN YtDlp_extract_failed(url)
                               ELSE YtDlp_extract_ok(url, InfoDicts[i]))
  /\ UNCHANGED <<YT_DLP_AVAILABLE, handlers, caller, url, hidx, result, folder,
                 files, headers, attempt, sidx, vidx, exit, link, printed, net,
                 files0, folder0, ncalls>>

\* TikTokHandler.extract_info, lines 194-198: the headers are built and the
\* retry loop is entered
TikTok_extract_info_start ==
  /\ pc = "extract"
  /\ handlers[hidx] = "TikTokHandler"
  /\ calls' = Log("TikTokHandler", "extract_info")
  /\ \E ua \in 1..Len(TIKTOK_USER_AGENTS) : headers' = ua
  /\ attempt' = 1
  /\ sidx' = 1
  /\ net' = NoNet
  /\ pc' = "tt_service"
  /\ UNCHANGED <<YT_DLP_AVAILABLE, handlers, caller, url, hidx, video_info,
                 result, folder, files, vidx, exit, link, printed, records, files0,
                 folder0, ncalls>>

\* the except clause of line 241: the attempt is over, without the sleep
TikTok_except ==
  /\ attempt' = attempt + 1
  /\ sidx' = 1
  /\ UNCHANGED <<pc, video_info, records>>

TikTok_next_service ==
  /\ sidx' = sidx + 1
  /\ UNCHANGED <<pc, attempt, video_info, records>>

\* lines 206-238: one turn of the loop over service_urls
TikTok_service ==
  /\ pc = "tt_service"
  /\ attempt <= LastAttempt
  /\ sidx <= Len(service_urls)
  /\ LET service == service_urls[sidx]
         requested == Contains(<<"ssstik">>, service) \/ Contains(<<"tikwm">>, service)
     IN
     IF ~requested
       THEN TikTok_next_service /\ UNCHANGED net
       ELSE
         \E r \in 1..Len(TikTokResponses), ts \in Timestamps :
              LET resp == TikTokResponses[r]
                  found == first_acceptable(video_links(resp))
              IN
              /\ net' = NetEvent("request", attempt, sidx, headers, r, 0)
              /\ IF resp.kind = "error" THEN TikTok_except
                   ELSE IF resp.status # 200 THEN TikTok_next_service
                   ELSE IF resp.json = "invalid" THEN TikTok_except
                   ELSE IF found # None
                     THEN /\ ExtractReturns(TikTok_found(url, found, ts))
                          /\ UNCHANGED <<attempt, sidx>>
                   ELSE TikTok_next_service
  /\ UNCHANGED <<YT_DLP_AVAILABLE, handlers, caller, url, hidx, result, folder,
                 files, headers, vidx, exit, link, printed, calls, files0, folder0,
                 ncalls>>

\* line 240: every service was passed, the backoff sleep ends the attempt
TikTok_sleep ==
  /\ pc = "tt_service"
  /\ attempt <= LastAttempt
  /\ sidx > Len(service_urls)
  /\ net' = NetEvent("sleep", attempt, 0, headers, 0, 0)
  /\ attempt' = attempt + 1
  /\ sidx' = 1
  /\ UNCHANGED <<YT_DLP_AVAILABLE, handlers, caller, pc, url, hidx, video_info,
                 result, folder, files, headers, vidx, exit, link, printed, calls,
                 records, files0, folder0, ncalls>>

\* line 244: the attempts are used up
TikTok_exhausted ==
  /\ pc = "tt_service"
  /\ attempt > LastAttempt
  /\ ExtractReturns(TikTok_failed(url))
  /\ UNCHANGED <<YT_DLP_AVAILABLE, handlers, caller, url, hidx, result, folder,
                 files, headers, attempt, sidx, vidx, exit, link, printed, calls,
                 net, files0, folder0, ncalls>>

\* InstagramHandler.extract_info, lines 252-259: the variants are built and
\* the loop over them is entered
Instagram_extract_info_start ==
  /\ pc = "extract"
  /\ handlers[hidx] = "InstagramHandler"
  /\ calls' = Log("InstagramHandler", "extract_info")
  /\ vidx' = 1
  /\ net' = NoNet
  /\ pc' = "ig_variant"
  /\ UNCHANGED <<YT_DLP_AVAILABLE, handlers, caller, url, hidx, video_info,
                 result, folder, files, headers, attempt, sidx, exit, link, printed,
                 records, files0, folder0, ncalls>>

\* lines 260-280: one variant is requested and its answer read
Instagram_variant ==
  /\ pc = "ig_variant"
  /\ vidx <= Len(ig_attempts(url))
  /\ \E resp \in IgResponses, ts \in Timestamps :
       LET attempt_url == ig_attempts(url)[vidx]
           parsed == /\ Contains(<<"__a=1">>, attempt_url)
                     /\ resp.text = "json"
       IN
       /\ net' = NetEvent("request", 1, vidx, 0, resp.data, 0)
       /\ IF resp.kind = "error" \/ resp.status # 200
            THEN /\ vidx' = vidx + 1
                 /\ UNCHANGED <<pc, video_info, records>>
            ELSE IF parsed /\ Instagram_has_media(IgDatas[resp.data])
              THEN /\ ExtractReturns(Instagram_found(url, IgDatas[resp.data], ts))
                   /\ UNCHANGED vidx
            ELSE /\ pc' = "ig_sleep"
                 /\ UNCHANGED <<vidx, video_info, records>>
  /\ UNCHANGED <<YT_DLP_AVAILABLE, handlers, caller, url, hidx, result, folder,
                 files, headers, attempt, sidx, exit, link, printed, calls, files0,
                 folder0, ncalls>>

\* line 282: the pause after a variant that answered 200 without a video
Instagram_sleep ==
  /\ pc = "ig_sleep"
  /\ net' = NetEvent("sleep", 1, vidx, 0, 0, 0)
  /\ vidx' = vidx + 1
  /\ pc' = "ig_variant"
  /\ UNCHANGED <<YT_DLP_AVAILABLE, handlers, caller, url, hidx, video_info,
                 result, folder, files, headers, attempt, sidx, exit, link, printed,
                 calls, records, files0, folder0, ncalls>>

\* line 286: the variants are used up
Instagram_exhausted ==
  /\ pc = "ig_variant"
  /\ vidx > Len(ig_attempts(url))
  /\ ExtractReturns(Instagram_failed(url))
  /\ UNCHANGED <<YT_DLP_AVAILABLE, handlers, caller, url, hidx, result, folder,
                 files, headers, attempt, sidx, vidx, exit, link, printed, calls,
                 net, files0, folder0, ncalls>>

\* try_download ends with outcome o.res, leaving the filesystem of o
Finish(o) ==
  /\ result' = o.res
  /\ folder' = o.folder
  /\ files' = o.files
  /\ pc' = "td_done"

\* the direct download's failure does not end the call: the chain goes on
try_download_direct_falls_through ==
  /\ pc = "td_decide"
  /\ video_info.downloaded_ok /\ Truthy(video_info.download_url)
  /\ calls' = Log("AllInOneDownloader", "_fast_direct_download")
  /\ \E xfer \in Transfers, ts \in Timestamps :
       LET o == fast_direct_download(video_info, folder, files, xfer, ts)
       IN /\ net' = NetEvent(xfer.kind, 0, 0, 0, 0, xfer.size)
          /\ IF o.res.kind = "raise" \/ o.res.ok
               THEN Finish(o) /\ UNCHANGED hidx
               ELSE /\ hidx' = hidx + 1
                    /\ pc' = "td_loop"
                    /\ folder' = o.folder
                    /\ files' = o.files
                    /\ UNCHANGED result
  /\ UNCHANGED <<YT_DLP_AVAILABLE, handlers, caller, url, video_info, headers,
                 attempt, sidx, vidx, exit, link, printed, records,
                 files0, folder0, ncalls>>

\* lines 310-312: a resolved record with a link goes to the direct downloader
try_download_direct ==
  /\ pc = "td_decide"
  /\ video_info.downloaded_ok /\ Truthy(video_info.download_url)
  /\ calls' = Log("AllInOneDownloader", "_fast_direct_download")
  /\ \E xfer \in Transfers, ts \in Timestamps :
       /\ Finish(fast_direct_download(video_info, folder, files, xfer, ts))
       /\ net' = NetEvent(xfer.kind, 0, 0, 0, 0, xfer.size)
  /\ UNCHANGED <<YT_DLP_AVAILABLE, handlers, caller, url, hidx, video_info,
                 headers, attempt, sidx, vidx, exit, link, printed, records,
                 files0, folder0, ncalls>>

\* lines 314-319: otherwise the handler's own perform_download is called
try_download_perform ==
  /\ pc = "td_decide"
  /\ ~(video_info.downloaded_ok /\ Truthy(video_info.download_url))
  /\ calls' = Log(handlers[hidx], "perform_download")
  /\ \E dl \in YtDlpDownloads, ts \in Timestamps :
       LET o == perform_download(handlers[hidx], video_info, folder, files, dl, ts)
       IN IF o.res.kind = "raise" \/ o.res.ok
            THEN Finish(o) /\ UNCHANGED hidx
            ELSE /\ hidx' = hidx + 1
                 /\ pc' = "td_loop"
                 /\ folder' = o.folder
                 /\ files' = o.files
                 /\ UNCHANGED result
  /\ UNCHANGED <<YT_DLP_AVAILABLE, handlers, caller, url, video_info, headers,
                 attempt, sidx, vidx, exit, link, printed, records, net, files0,
                 folder0, ncalls>>

\* the last resort tried without asking whether yt-dlp is there
try_download_fallback_unguarded ==
  /\ pc = "td_loop"
  /\ hidx > Len(handlers)
  /\ calls' = Log("fallback", "perform_download")
  /\ records' = records \cup {VideoData(url)}
  /\ \E dl \in YtDlpDownloads, ts \in Timestamps :
       Finish(YtDlp_perform_download(VideoData(url), folder, files, dl, ts))
  /\ UNCHANGED <<YT_DLP_AVAILABLE, handlers, caller, url, hidx, video_info,
                 headers, attempt, sidx, vidx, exit, link, printed, net,
                 files0, folder0, ncalls>>

\* the last resort downloads with the record of the last handler tried
try_download_fallback_stale_record ==
  /\ pc = "td_loop"
  /\ hidx > Len(handlers)
  /\ IF YT_DLP_AVAILABLE
       THEN /\ calls' = Log("fallback", "perform_download")
            /\ records' = records \cup {video_info}
            /\ \E dl \in YtDlpDownloads, ts \in Timestamps :
                 Finish(YtDlp_perform_download(video_info, folder, files, dl, ts))
       ELSE /\ Finish(Outcome(Return(FALSE, NO_METHOD), folder, files))
            /\ UNCHANGED <<calls, records>>
  /\ UNCHANGED <<YT_DLP_AVAILABLE, handlers, caller, url, hidx, video_info,
                 headers, attempt, sidx, vidx, exit, link, printed, net, files0,
                 folder0, ncalls>>

\* lines 321-328: the chain is used up
try_download_fallback ==
  /\ pc = "td_loop"
  /\ hidx > Len(handlers)
  /\ IF YT_DLP_AVAILABLE
       THEN /\ calls' = Log("fallback", "perform_download")
            /\ records' = records \cup {VideoData(url)}
            /\ \E dl \in YtDlpDownloads, ts \in Timestamps :
                 Finish(YtDlp_perform_download(VideoData(url), folder, files, dl, ts))
       ELSE /\ Finish(Outcome(Return(FALSE, NO_METHOD), folder, files))
            /\ UNCHANGED <<calls, records>>
  /\ UNCHANGED <<YT_DLP_AVAILABLE, handlers, caller, url, hidx, video_info,
                 headers, attempt, sidx, vidx, exit, link, printed, net, files0,
                 folder0, ncalls>>

\* main_loop, lines 376-385: the verdict is printed and the prompt returns;
\* an exception of try_download is no KeyboardInterrupt and ends the program
main_loop_report ==
  /\ pc = "td_done"
  /\ caller = "main_loop"
  /\ IF result.kind = "raise"
       THEN pc' = "exited" /\ exit' = "traceback" /\ UNCHANGED printed
       ELSE /\ pc' = "prompt"
            /\ printed' = (IF result.ok THEN "success" ELSE "error")
            /\ UNCHANGED exit
  /\ UNCHANGED <<YT_DLP_AVAILABLE, handlers, caller, url, hidx, video_info,
                 result, folder, files, headers, attempt, sidx, vidx, link,
                 calls, records, net, files0, folder0, ncalls>>

\* the direct caller has its answer and may call again
api_return ==
  /\ pc = "td_done"
  /\ caller = "api"
  /\ pc' = "idle"
  /\ UNCHANGED <<YT_DLP_AVAILABLE, handlers, caller, url, hidx, video_info,
                 result, folder, files, headers, attempt, sidx, vidx, exit,
                 link, printed, calls, records, net, files0, folder0, ncalls>>

\* --------------------------------------------------------------- interrupts
\* Ctrl-C at the terminal of main_loop raises KeyboardInterrupt at the point
\* the program has reached.
\* the program is inside the try of TikTokHandler.extract_info, lines 199-240
InTikTokTry == pc = "tt_service" /\ attempt <= LastAttempt

\* the program is inside the try of InstagramHandler.extract_info, lines 260-282
InInstagramTry ==
  \/ pc = "ig_variant" /\ vidx <= Len(ig_attempts(url))
  \/ pc = "ig_sleep"

\* lines 241-242: the bare except takes the KeyboardInterrupt as it takes a
\* request error, and the next attempt starts
TikTok_interrupted ==
  /\ caller = "main_loop"
  /\ InTikTokTry
  /\ net' = NetEvent("interrupt", attempt, sidx, headers, 0, 0)
  /\ TikTok_except
  /\ UNCHANGED <<YT_DLP_AVAILABLE, handlers, caller, url, hidx, result, folder,
                 files, headers, vidx, exit, link, printed, calls, files0, folder0,
                 ncalls>>

\* lines 279-280 and 283-284: the bare except around r.json() passes on to
\* the sleep, the bare except around the variant goes on to the next variant
Instagram_interrupted ==
  /\ caller = "main_loop"
  /\ InInstagramTry
  /\ net' = NetEvent("interrupt", 1, vidx, 0, 0, 0)
  /\ \/ /\ pc = "ig_variant"
        /\ Contains(<<"__a=1">>, ig_attempts(url)[vidx])
        /\ pc' = "ig_sleep"
        /\ vidx' = vidx
     \/ /\ pc' = "ig_variant"
        /\ vidx' = vidx + 1
  /\ UNCHANGED <<YT_DLP_AVAILABLE, handlers, caller, url, hidx, video_info,
                 result, folder, files, headers, attempt, sidx, exit, link, printed,
                 calls, records, files0, folder0, ncalls>>

\* lines 389-392: anywhere else no handler of the exception stands in the
\* way (except Exception does not take a KeyboardInterrupt), the program
\* prints its farewell and ends
KeyboardInterrupt_exit ==
  /\ caller = "main_loop"
  /\ pc # "exited"
  /\ ~InTikTokTry /\ ~InInstagramTry
  /\ net' = NetEvent("interrupt", 0, 0, 0, 0, 0)
  /\ pc' = "exited"
  /\ exit' = "interrupted"
  /\ printed' = "interrupted"
  /\ UNCHANGED <<YT_DLP_AVAILABLE, handlers, caller, url, hidx, video_info,
                 result, folder, files, headers, attempt, sidx, vidx, link,
                 calls, records, files0, folder0, ncalls>>

Next ==
  \/ main_loop_input
  \/ api_try_download
  \/ try_download_can_handle
  \/ YtDlp_extract_info
  \/ TikTok_extract_info_start
  \/ TikTok_service
  \/ TikTok_sleep
  \/ TikTok_exhausted
  \/ Instagram_extract_info_start
  \/ Instagram_variant
  \/ Instagram_sleep
  \/ Instagram_exhausted
  \/ try_download_direct
  \/ try_download_perform
  \/ try_download_fallback
  \/ main_loop_report
  \/ api_return
  \/ TikTok_interrupted
  \/ Instagram_interrupted
  \/ KeyboardInterrupt_exit

Spec == Init /\ [][Next]_vars

\* ------------------------------------------------------------------- claims
HandlerOps == {"can_handle", "extract_info", "perform_download"}

Specialized == {"TikTokHandler", "InstagramHandler"}

LastCall == calls[Len(calls)]

DirectCall == [h |-> "AllInOneDownloader", op |-> "_fast_direct_download"]

\* try_download is not running: it has ended, or was never started
NotRunning == pc \in {"td_done", "prompt", "idle", "exited"}

\* C1: no exception escapes a handler's public operations: when try_download
\* has ended right after an operation of a handler, it ended by returning.
C1_NoExceptionEscapesHandler ==
  (pc = "td_done" /\ calls # <<>> /\ LastCall.op \in HandlerOps)
    => result.kind = "return"

\* C2: once the direct downloader was called nothing else is called: the call
\* is the last of try_download, which ends with it, and a failure it returns
\* carries the direct downloader's reason.
C2_DirectLinkShortCircuits ==
  \A i \in 1..Len(calls) :
    calls[i] = DirectCall =>
      /\ i = Len(calls)
      /\ NotRunning
      /\ (result.kind = "return" /\ ~result.ok) =>
           result.val[1] \in {"direct download failed: ", "file too small ("}

\* C2 witness: the direct download of a link the TikTok handler found failed
\* while a later handler of the chain applies and yt-dlp is there.
C2_Witness ==
  /\ pc = "td_done"
  /\ calls # <<>> /\ LastCall = DirectCall
  /\ result.kind = "return" /\ ~result.ok
  /\ YT_DLP_AVAILABLE
  /\ handlers[hidx] = "TikTokHandler"
  /\ can_handle("InstagramHandler", url)

\* C3: every try_download ends by returning (success, result), result a path
\* of an existing file on success and a reason otherwise.
C3_AlwaysReturnsPair ==
  pc = "td_done" =>
    /\ result.kind = "return"
    /\ result.ok => path_exists(files, result.val)
    /\ ~result.ok => ~StartsWith(result.val, DEFAULT_SAVE_FOLDER)

\* C4: the generic extractor is consulted only after every specialized
\* handler that accepts the URL has been tried.
C4_GenericConsultedLast ==
  \A i \in 1..Len(calls) :
    (calls[i].h = "YtDlpHandler" /\ calls[i].op = "extract_info") =>
      \A h \in Specialized :
        can_handle(h, url) =>
          \E j \in 1..(i - 1) : calls[j] = [h |-> h, op |-> "extract_info"]

\* C5: a handler without a successful download does not stop try_download:
\* the call ends right after a specialized handler's perform_download only
\* when that download succeeded.
C5_FailedHandlerFallsThrough ==
  (pc = "td_done" /\ calls # <<>> /\ LastCall.h \in Specialized
     /\ LastCall.op = "perform_download")
    => (result.kind = "return" /\ result.ok)

RecordConsistent(r) ==
  /\ ~(r.downloaded_ok /\ r.fail_reason # None)
  /\ r.download_url # None => r.downloaded_ok

ExactlyOne(r) == r.downloaded_ok # (r.fail_reason # None)

\* C6: no record of a try_download call is both resolved and failed, or has a
\* link without being resolved; and every record extract_info returned is
\* exactly one of resolved and failed.
C6_RecordInvariant ==
  /\ \A r \in records :
       /\ RecordConsistent(r)
       /\ r # VideoData(url) => ExactlyOne(r)
  /\ pc = "td_decide" => (video_info \in records /\ ExactlyOne(video_info))

\* C6 witness: a handler returned a resolved record with a link after an
\* earlier handler of the same call returned a failed one.
C6_Witness ==
  /\ pc = "td_decide"
  /\ video_info.downloaded_ok /\ Truthy(video_info.download_url)
  /\ \E r \in records : ~r.downloaded_ok /\ r.fail_reason # None

\* C7: a download that left a file below the minimum size is not a success
\* and the file is gone when the download operation has returned.
C7_UndersizedFileDeleted ==
  pc \in {"td_loop", "td_done"} =>
    /\ \A f \in files \ files0 : f.size > YtDlpMinBytes
    /\ (result.kind = "return" /\ result.ok) =>
         YtDlp_file_ok(files, result.val)

\* C8: a successful try_download leaves exactly one new file, the one whose
\* path it returns, and every file that was there before as it was.
C8_ExactlyOneNewFile ==
  (pc = "td_done" /\ result.kind = "return" /\ result.ok) =>
    /\ files0 \subseteq files
    /\ \E f \in files : f.path = result.val /\ files \ files0 = {f}

NoHandlerApplies ==
  \A i \in 1..Len(handlers) : ~can_handle(handlers[i], url)

\* C9: with no handler accepting the URL and no yt-dlp, try_download returns
\* (false, the fixed reason) having called nothing but can_handle and having
\* left the folder and its files as they were.
C9_NoApplicableMethod ==
  (pc = "td_done" /\ ~YT_DLP_AVAILABLE /\ NoHandlerApplies) =>
    /\ result = Return(FALSE, NO_METHOD)
    /\ \A i \in 1..Len(calls) : calls[i].op = "can_handle"
    /\ folder = folder0
    /\ files = files0

\* C9 witness: such a call has ended and the folder was never made.
C9_Witness ==
  /\ pc = "td_done"
  /\ ~YT_DLP_AVAILABLE
  /\ NoHandlerApplies
  /\ url = UrlTikTokProfile
  /\ Len(calls) = Len(handlers)
  /\ folder0 = "absent" /\ folder = "absent"

\* C10: the empty string is turned away before any handler is consulted:
\* read by main_loop it starts no download and prints no download verdict,
\* passed to try_download it leads to no handler operation and to a failure.
C10_EmptyInputRejected ==
  /\ link = <<>> => (pc = "exited" /\ printed \notin {"success", "error"})
  /\ (ncalls > 0 /\ url = <<>>) =>
       /\ calls = <<>>
       /\ pc = "td_done" => (result.kind = "return" /\ ~result.ok)

\* ------------------------------------------------------------- C11 to C20
\* the last network event is a request of TikTokHandler.extract_info
TikTokRequest == net.ev = "request" /\ net.ua \in 1..Len(TIKTOK_USER_AGENTS)

\* the answer to that request
TikTokAnswer == TikTokResponses[net.resp]

\* a body was read: status 200, and valid JSON where it looks like JSON
BodyRead(resp) ==
  resp.kind = "http" /\ resp.status = 200 /\ resp.json # "invalid"

\* a link with no watermark tag and of at least the minimum length
LinkWanted(l) ==
  ~Contains(<<"watermark">>, Lower(l)) /\ Len(l) >= MinLinkLen

RECURSIVE FirstWanted(_)
FirstWanted(links) ==
  IF links = <<>> THEN None
  ELSE IF LinkWanted(Head(links)) THEN Head(links)
  ELSE FirstWanted(Tail(links))

\* C11: the link TikTokHandler.extract_info returns has no watermark tag and
\* at least the minimum length, and a body holding such links makes it
\* return the first of them in scan order, one of exactly the minimum length
\* included.
C11_FirstAcceptableLink ==
  /\ (pc = "td_decide" /\ handlers[hidx] = "TikTokHandler"
        /\ video_info.downloaded_ok) =>
       LinkWanted(video_info.download_url)
  /\ (TikTokRequest /\ BodyRead(TikTokAnswer)
        /\ FirstWanted(video_links(TikTokAnswer)) # None) =>
       /\ pc = "td_decide"
       /\ video_info.downloaded_ok
       /\ video_info.download_url = FirstWanted(video_links(TikTokAnswer))

\* C12: a resolved record with a link handed to the direct downloader, whose
\* transfer completes with a size that meets the direct threshold, makes
\* _fast_direct_download return (true, target path) with the file in place.
C12_DirectDownloadSucceeds ==
  (pc = "td_done" /\ calls # <<>> /\ LastCall = DirectCall
     /\ folder0 # "blocked"
     /\ net.ev = "complete" /\ ~too_small_direct(net.size)) =>
    /\ result.kind = "return"
    /\ result.ok
    /\ path_exists(files, result.val)

\* a step that is a call of can_handle
CanHandleStep ==
  /\ Len(calls') = Len(calls) + 1
  /\ calls'[Len(calls')].op = "can_handle"

\* C13: can_handle is a pure predicate: in whatever state it is called its
\* verdict is that of the patterns on the URL alone, it makes no network
\* request and it changes nothing of the downloader, the records or the
\* filesystem.
C13_CanHandleIsPure ==
  [][CanHandleStep =>
       /\ (pc' = "extract") = can_handle(calls'[Len(calls')].h, url)
       /\ net' = net
       /\ files' = files /\ folder' = folder
       /\ records' = records /\ video_info' = video_info
       /\ handlers' = handlers /\ YT_DLP_AVAILABLE' = YT_DLP_AVAILABLE
       /\ url' = url /\ headers' = headers /\ result' = result]_vars

\* C13 witness: InstagramHandler has accepted the URL that TikTokHandler
\* turned down, both asked after yt-dlp had already changed the folder.
C13_Witness ==
  /\ pc = "extract"
  /\ LastCall = [h |-> "InstagramHandler", op |-> "can_handle"]
  /\ calls[Len(calls) - 1] = [h |-> "TikTokHandler", op |-> "can_handle"]
  /\ files # files0

\* a step of TikTokHandler.extract_info that issues a request, or sleeps
TikTokRequestStep == pc = "tt_service" /\ net' # net /\ net'.ev = "request"

TikTokSleepStep == pc = "tt_service" /\ net' # net /\ net'.ev = "sleep"

\* C14: within an attempt of TikTokHandler.extract_info a service that answers
\* with a status other than 200, with a transport error or with a body that
\* does not parse is passed over, and the loop goes on to the next service of
\* the same attempt.
C14_FailedServiceSkipped ==
  [][(TikTokRequestStep /\ ~BodyRead(TikTokResponses[net'.resp])) =>
       /\ pc' = "tt_service"
       /\ attempt' = attempt
       /\ sidx' = sidx + 1]_vars

\* C15: TikTokHandler.extract_info requests within the attempts 1..3 only,
\* passes a service of the list only by one request to it, in list order, and
\* when it returns without a link it returns the failed record after the
\* last attempt.
C15_EveryServiceRequested ==
  [][/\ TikTokRequestStep =>
          /\ net'.attempt = attempt /\ attempt <= LastAttempt
          /\ net'.service = sidx /\ sidx <= Len(service_urls)
     /\ (pc = "tt_service" /\ attempt' = attempt /\ sidx' = sidx + 1) =>
          TikTokRequestStep
     /\ (pc = "tt_service" /\ pc' = "td_decide" /\ ~video_info'.downloaded_ok) =>
          /\ attempt > LastAttempt
          /\ video_info' = TikTok_failed(url)]_vars

\* C16: an attempt of TikTokHandler.extract_info gives way to the next one
\* only by the backoff sleep, whatever ended it, and the sleep is taken only
\* when an attempt is left to follow it.
C16_SleepBetweenAttempts ==
  [][/\ (pc = "tt_service" /\ attempt' = attempt + 1) => TikTokSleepStep
     /\ TikTokSleepStep => attempt < LastAttempt]_vars

\* a step of TikTokHandler.extract_info that starts the next attempt
NextAttemptStep ==
  pc = "tt_service" /\ attempt < LastAttempt /\ attempt' = attempt + 1 /\ Next

\* C17: the User-Agent is drawn anew at the start of every attempt: wherever
\* a next attempt can start, it can start with any User-Agent of the pool.
C17_UserAgentPerAttempt ==
  \A ua \in 1..Len(TIKTOK_USER_AGENTS) :
    ENABLED NextAttemptStep => ENABLED (NextAttemptStep /\ headers' = ua)

\* a step of InstagramHandler.extract_info that requests a variant
InstagramRequestStep == pc = "ig_variant" /\ net' # net /\ net'.ev = "request"

\* a parsed body with the media descriptor and its video URL
HasVideo(data) ==
  /\ "graphql" \in DOMAIN data
  /\ "shortcode_media" \in DOMAIN data.graphql
  /\ Truthy(dict_get(data.graphql.shortcode_media, "video_url", None))

\* a parsed body with the media descriptor, its video URL and its owner's handle
MediaWithOwner(data) ==
  /\ Instagram_has_media(data)
  /\ "username" \in DOMAIN data.graphql.shortcode_media.owner

\* C18: InstagramHandler.extract_info requests its variants in order, once
\* each; a variant, the embed view included, answered 200 with the media
\* descriptor ends the call with a resolved record of that video URL and
\* owner; any other answer leaves the call running; the call fails only
\* after the last variant, with the reason "methods exhausted".
C18_AnyVariantResolves ==
  [][/\ InstagramRequestStep =>
          /\ net'.service = vidx /\ vidx <= Len(ig_attempts(url))
          /\ (net'.resp > 0 /\ MediaWithOwner(IgDatas[net'.resp])) =>
               LET media == IgDatas[net'.resp].graphql.shortcode_media IN
               /\ pc' = "td_decide"
               /\ video_info'.downloaded_ok
               /\ video_info'.download_url = media.video_url
               /\ video_info'.username = media.owner.username
          /\ (net'.resp = 0 \/ ~HasVideo(IgDatas[net'.resp])) =>
               pc' \in {"ig_variant", "ig_sleep"}
     /\ (pc = "ig_variant" /\ pc' = "td_decide" /\ ~video_info'.downloaded_ok) =>
          /\ vidx > Len(ig_attempts(url))
          /\ video_info' = Instagram_failed(url)]_vars

FallbackCall == [h |-> "fallback", op |-> "perform_download"]

\* the calls of the generic extractor's perform_download so far
GenericDownloads ==
  { i \in 1..Len(calls) :
      /\ calls[i].op = "perform_download"
      /\ calls[i].h \in {"YtDlpHandler", "fallback"} }

\* C19: the last resort is called only with yt-dlp available and after every
\* handler that accepts the URL had its perform_download called, with no
\* direct download among the calls; it is the last call, made with a fresh
\* record of the URL, and try_download returns what it returned: a failure,
\* or the path of the file named after the fresh record; the generic
\* download runs at most twice in a call.
C19_FallbackLastResort ==
  /\ Cardinality(GenericDownloads) <= 2
  /\ \A i \in 1..Len(calls) :
       calls[i] = FallbackCall =>
         /\ i = Len(calls)
         /\ NotRunning
         /\ YT_DLP_AVAILABLE
         /\ \A k \in 1..Len(handlers) :
              can_handle(handlers[k], url) =>
                \E j \in 1..(i - 1) :
                  calls[j] = [h |-> handlers[k], op |-> "perform_download"]
         /\ \A j \in 1..i : calls[j] # DirectCall
         /\ VideoData(url) \in records
         /\ result.kind = "return"
         /\ result.ok =>
              /\ \E ts \in Timestamps :
                   result.val = path_join(DEFAULT_SAVE_FOLDER,
                                          suggested_filename(VideoData(url), ts))
              /\ path_exists(files, result.val)
         /\ ~result.ok =>
              result.val \in {<<"str(e)">>, <<"file missing or too small">>}

\* C19 witness: the last resort has downloaded the file after yt-dlp, as a
\* handler of the chain, had resolved the URL and failed to download it.
C19_Witness ==
  /\ pc = "td_done"
  /\ calls # <<>> /\ LastCall = FallbackCall
  /\ result.ok
  /\ Cardinality(GenericDownloads) = 2
  /\ video_info.downloaded_ok
  /\ video_info # VideoData(url)

\* C20: an interrupt delivered while a URL is processed is not taken by a
\* handler's error handling: the processing does not go on and the program
\* ends by its interrupt exit.
C20_InterruptHonored ==
  net.ev = "interrupt" => (pc = "exited" /\ exit = "interrupted")

====
